---- MODULE Spec2Model ----
(***************************************************************************)
(* CurrencyExchangeBot: the day-keyed rates cache (RatesStorage) and the   *)
(* request handlers of API (extensions.py).                                *)
(*                                                                         *)
(* Strings are sequences of one-character tokens.  A Cyrillic letter is    *)
(* written as its transliteration with a leading "~" ("~R" is the capital  *)
(* letter ER, "~r" the small one), so that it stays distinct from the      *)
(* Latin letter and str.lower() can be modelled on it.                     *)
(***************************************************************************)
EXTENDS Integers, Sequences, FiniteSets, TLC

VARIABLES
    today,            \* what RatesStorage.current_date() returns now
    hasStorage,       \* hasattr(API, 'storage')
    data_write_only,  \* RatesStorage._data_write_only
    data_read_only,   \* RatesStorage._data_read_only
    cached_date,      \* RatesStorage._cached_date (NoDate is None)
    requested_date,   \* the date of requested_url of the last fill()
    fill_status,      \* how the last fill() ended: "never", "ok", "failed"
    published,        \* the list the last fill() that ended well has built
    ret,              \* what the last call returned or raised, and what it did
    threads           \* where each worker thread of the bot is in its request

vars == <<today, hasStorage, data_write_only, data_read_only, cached_date,
          requested_date, fill_status, published, ret, threads>>

----------------------------------------------------------------------------
(* Bounds *)

MaxDate == 2

MaxEntries == 2

\* the requests a worker thread serves in the concurrent specification
MaxCalls == 2

----------------------------------------------------------------------------
(* Strings *)

LowerMap ==
    ("A" :> "a") @@ ("B" :> "b") @@ ("D" :> "d") @@ ("E" :> "e") @@
    ("G" :> "g") @@ ("P" :> "p") @@ ("R" :> "r") @@ ("S" :> "s") @@
    ("U" :> "u") @@ ("O" :> "o") @@
    ("~D" :> "~d") @@ ("~E" :> "~e") @@ ("~F" :> "~f") @@ ("~R" :> "~r") @@
    ("~V" :> "~v") @@ ("~O" :> "~o")

\* str.lower() on one character
LowerChar(c) == IF c \in DOMAIN LowerMap THEN LowerMap[c] ELSE c

\* str.lower()
lower(s) == [li \in 1..Len(s) |-> LowerChar(s[li])]

Min2(a, b) == IF a <= b THEN a ELSE b

\* One row of the Wagner-Fischer table: prev is the row of the prefix of a
\* without its last character c, acc the cells of the new row built so far.
\* (The CASE arms state the shape of the table and make each cell a value
\* before the next one is computed.)
RECURSIVE LevRow(_, _, _, _)
LevRow(prev, c, b, acc) ==
    LET j == Len(acc) IN
    IF j > Len(b) THEN acc
    ELSE LET cost == IF b[j] = c THEN 0 ELSE 1
             cell == Min2(Min2(prev[j + 1] + 1, acc[j] + 1), prev[j] + cost)
             next == Append(acc, cell)
         IN CASE Len(next) = j + 1 -> LevRow(prev, c, b, next)

RECURSIVE LevRows(_, _, _, _)
LevRows(a, b, i, prev) ==
    IF i > Len(a) THEN prev[Len(b) + 1]
    ELSE LET row == LevRow(prev, a[i], b, <<i>>)
         IN CASE Len(row) = Len(prev) -> LevRows(a, b, i + 1, row)

\* the Wagner-Fischer table of a and b, row by row
Levenshtein(a, b) == LevRows(a, b, 1, [dj \in 1..(Len(b) + 1) |-> dj - 1])

DigitVal ==
    ("0" :> 0) @@ ("1" :> 1) @@ ("2" :> 2) @@ ("3" :> 3) @@ ("4" :> 4) @@
    ("5" :> 5) @@ ("6" :> 6) @@ ("7" :> 7) @@ ("8" :> 8) @@ ("9" :> 9)

RECURSIVE DigitsValue(_)
DigitsValue(s) ==
    IF s = <<>> THEN 0
    ELSE 10 * DigitsValue(SubSeq(s, 1, Len(s) - 1)) + DigitVal[s[Len(s)]]

\* No value: float() raises ValueError
ValueError == [ok |-> FALSE, nan |-> FALSE, val |-> 0]

\* float("nan"): a float that is no number; every comparison with it is false
nan == [ok |-> TRUE, nan |-> TRUE, val |-> 0]

AllDigits(s) == \A fj \in 1..Len(s) : s[fj] \in DOMAIN DigitVal

\* the value, in hundredths, of the digits ip before and fp behind the point
DecimalOf(ip, fp) ==
    IF AllDigits(ip) /\ AllDigits(fp) /\ Len(ip) + Len(fp) >= 1 /\ Len(fp) <= 2
    THEN [ok |-> TRUE, nan |-> FALSE,
          val |-> 100 * DigitsValue(ip)
                  + (IF Len(fp) = 1 THEN 10 * DigitsValue(fp) ELSE DigitsValue(fp))]
    ELSE ValueError

\* where the first point of s is; behind its end when it has none
PointIndex(s) ==
    IF \E fi \in 1..Len(s) : s[fi] = "."
    THEN CHOOSE fi \in 1..Len(s) : s[fi] = "." /\ \A fk \in 1..(fi - 1) : s[fk] # "."
    ELSE Len(s) + 1

SplitAt(s, point) == DecimalOf(SubSeq(s, 1, point - 1), SubSeq(s, point + 1, Len(s)))

Unsigned(s) == SplitAt(s, PointIndex(s))

Negated(f) == [ok |-> f.ok, nan |-> FALSE, val |-> 0 - f.val]

\* float(s), for the decimal literals [-]digits[.digits] with at most two
\* fraction digits, whose value is kept in hundredths, and for "nan".  Every
\* other text of the model is one float() rejects.
float(s) ==
    IF s = <<"n", "a", "n">> THEN nan
    ELSE IF s # <<>> /\ s[1] = "-" THEN Negated(Unsigned(Tail(s)))
    ELSE Unsigned(s)

\* f <= 0 on floats
NotAboveZero(f) == ~f.nan /\ f.val <= 0

\* str.replace(",", ".")
CommaToDot(s) == [ci \in 1..Len(s) |-> IF s[ci] = "," THEN "." ELSE s[ci]]

----------------------------------------------------------------------------
(* The upstream feeds the model draws from *)

NoDate == 0

\* the vocabulary document: Item ID -> Name, EngName
VocDoc ==
    ("R1" :> [rus_name |-> <<"~D", "~o", "~l", "~l", "~a", "~r">>,
              eng_name |-> <<"D", "o", "l", "l", "a", "r">>]) @@
    ("R2" :> [rus_name |-> <<"~E", "~v", "~r", "~o">>,
              eng_name |-> <<"E", "u", "r", "o">>]) @@
    ("R3" :> [rus_name |-> <<"~F", "~u", "~n", "~t">>,
              eng_name |-> <<"P", "o", "u", "n", "d">>])

\* the names of the synthetic record
RUR_NAMES ==
    [rus_name |-> <<"~R", "~o", "~s", "~s", "~i", "~j", "~s", "~k", "~i", "~j",
                    " ", "~r", "~u", "~b", "~l", "~soft">>,
     eng_name |-> <<"R", "u", "s", "s", "i", "a", "n", " ", "R", "u", "b", "l", "e">>]

\* what requests.get(CURRENCIES_VOC_URL) and the parse of it can give: the
\* request fails, the document is not the expected XML, or it is parsed
VocResponses ==
    { [status |-> "RequestException", doc |-> <<>>],
      [status |-> "Malformed", doc |-> <<>>],
      [status |-> "ok", doc |-> VocDoc] }

NoCode == <<>>   \* a Valute without a CharCode element

USD == <<"U", "S", "D">>
EUR == <<"E", "U", "R">>
GBP == <<"G", "B", "P">>

\* the Valute elements a rates document is made of, in the order of the
\* document: two well-formed ones, one repeating the code of another, one
\* repeating the ID of another and one whose ID the vocabulary lacks
ValutePool ==
    << [id |-> "R1", code |-> USD, rate |-> <<"9", "0">>],
       [id |-> "R2", code |-> EUR, rate |-> <<"1", "0", "0", ",", "5">>],
       [id |-> "R3", code |-> USD, rate |-> <<"9", "5">>],
       [id |-> "R1", code |-> GBP, rate |-> <<"1", "1", "0">>],
       [id |-> "R9", code |-> GBP, rate |-> <<"1", "1", "0">>] >>

\* the documents of at most n elements of S, in the order of S
Documents(S, n) ==
    UNION { { [dk \in 1..sk |-> S[v[dk]]] :
              v \in { u \in [1..sk -> 1..Len(S)] :
                          \A d1, d2 \in 1..sk : d1 < d2 => u[d1] < u[d2] } } :
            sk \in 0..n }

\* what requests.get(requested_url) and the parse of it can give
RatesResponses ==
    { [status |-> "RequestException", valutes |-> <<>>],
      [status |-> "Malformed", valutes |-> <<>>] }
    \cup { [status |-> "ok", valutes |-> v] : v \in Documents(ValutePool, MaxEntries) }

\* a vocabulary failure ends the refresh before the rates are requested
Feeds ==
    { [voc |-> v, rates |-> x] : v \in {u \in VocResponses : u.status = "ok"},
                                 x \in RatesResponses }
    \cup { [voc |-> v, rates |-> [status |-> "RequestException", valutes |-> <<>>]] :
           v \in {u \in VocResponses : u.status # "ok"} }

\* the answer of an upstream nobody asks
NoFeed == [voc |-> [status |-> "RequestException", doc |-> <<>>],
           rates |-> [status |-> "RequestException", valutes |-> <<>>]]

----------------------------------------------------------------------------
(* The requests the model draws from *)

usd == <<"u", "s", "d">>              \* a code in lower case
EURO == <<"E", "U", "R", "O">>        \* an English name in upper case
EVRO == <<"~E", "~V", "~R", "~O">>    \* a Russian name in upper case
Dolar == <<"D", "o", "l", "a", "r">>  \* "Dollar" with one letter missing
Dor == <<"D", "o", "r">>              \* at distance 3 of "Dollar" and of "Euro"
Pund == <<"P", "u", "n", "d">>        \* "Pound" with one letter missing
Do == <<"D", "o">>                    \* at distance 4 of "Dollar", 3 of "Euro"

\* the requests of get_currency_data
Queries == { usd, EURO, EVRO, Dolar, Dor, Pund, Do }

\* the codes looked up directly
CodeQueries == { USD, usd, GBP }

\* the conversion requests: base, quote, amount
Requests ==
    { <<usd, EURO, <<"5">>>>,
      <<EURO, usd, <<"2", ".", "5">>>>,
      <<usd, Dolar, <<"5">>>>,
      <<Pund, EURO, <<"5">>>>,
      <<Do, usd, <<"5">>>>,
      <<usd, Do, <<"5">>>>,
      <<usd, EURO, <<"0">>>>,
      <<Do, Do, <<"a", "b", "c">>>>,
      <<Do, Do, <<"5">>>>,
      <<Do, Do, <<"0">>>>,
      <<usd, EURO, <<"n", "a", "n">>>> }

\* the lower-case names of the vocabulary and of the synthetic record
KnownNames ==
    {lower(VocDoc[vid].rus_name) : vid \in DOMAIN VocDoc}
    \cup {lower(VocDoc[vid].eng_name) : vid \in DOMAIN VocDoc}
    \cup {lower(RUR_NAMES.rus_name), lower(RUR_NAMES.eng_name)}

KnownDistances ==
    [p \in KnownNames \X {lower(q) : q \in Queries} |->
        Levenshtein(p[1], p[2])] @@ <<>>

----------------------------------------------------------------------------
(* RatesStorage *)

\* the machine a call runs on: the fields of the storage, what the last fill()
\* asked for and how it ended, and what this call has done so far: its calls
\* of fill() and of requests.get, and what the two feeds answered
Machine(w, r, cd, rd, fs, pub) ==
    [w |-> w, r |-> r, cd |-> cd, rd |-> rd, fs |-> fs, pub |-> pub,
     fills |-> 0, voc_fetches |-> 0, rates_fetches |-> 0, copies |-> 0,
     voc |-> "", rates |-> "", valutes |-> <<>>]

\* RatesStorage.__init__
NewStorage == Machine(<<>>, <<>>, NoDate, NoDate, "never", <<>>)

\* a call's outcome: the machine it leaves, the exception it raises ("" for
\* none) with its message, and the value it returns (a sequence: a snapshot,
\* or a record or none)
Return(m, val) == [m |-> m, exc |-> "", msg |-> "", val |-> val]
Raise(m, exc, msg) == [m |-> m, exc |-> exc, msg |-> msg, val |-> <<>>]

\* RatesStorage.reset
reset(m) == [m EXCEPT !.w = <<>>, !.r = <<>>, !.cd = NoDate]

\* the dicts of the vocabulary: "code" and "rub_rate" are not set yet
Dicts(doc) ==
    [vid \in DOMAIN doc |->
        [rus_name |-> doc[vid].rus_name, eng_name |-> doc[vid].eng_name,
         code |-> NoCode, rub_rate |-> 0]]

\* a variant whose handler of Exception comes first and takes every failure
VocabularyOfOneHandler(m, voc) ==
    IF voc.status # "ok" THEN Raise(m, "APIException", "VocParse")
    ELSE [m |-> m, exc |-> "", msg |-> "", val |-> Dicts(voc.doc)]

\* the try block of get_vocabulary and its two handlers
VocabularyOf(m, voc) ==
    CASE voc.status = "RequestException" -> Raise(m, "APIException", "VocFetch")
      [] voc.status = "Malformed"        -> Raise(m, "APIException", "VocParse")
      [] OTHER -> [m |-> m, exc |-> "", msg |-> "", val |-> Dicts(voc.doc)]

\* RatesStorage.get_vocabulary: the dict it returns, or the APIException
get_vocabulary(m, feed) ==
    VocabularyOf([m EXCEPT !.voc_fetches = @ + 1, !.voc = feed.voc.status], feed.voc)

\* the synthetic record fill() appends
RUR_RECORD ==
    [code |-> <<"R", "U", "R">>,
     rus_name |-> RUR_NAMES.rus_name,
     eng_name |-> RUR_NAMES.eng_name,
     rub_rate |-> 100]

\* The loop of fill() over the Valute elements.  vocabulary holds the dicts,
\* which the loop changes in place; refs are the ids of the dicts appended to
\* _data_write_only so far, so a dict appended twice is one dict.
RECURSIVE FillLoop(_, _, _, _)

LoopRaised(vocabulary, refs) ==
    [failed |-> TRUE, vocabulary |-> vocabulary, refs |-> refs]

\* currency_data["rub_rate"] = float(...); self._data_write_only.append(...)
FillRate(valutes, i, vocabulary, refs, id, rate) ==
    IF ~rate.ok THEN LoopRaised(vocabulary, refs)                  \* ValueError
    ELSE FillLoop(valutes, i + 1, [vocabulary EXCEPT ![id].rub_rate = rate.val],
                  Append(refs, id))

\* currency_data = vocabulary[id]; currency_data["code"] = ...
FillItem(valutes, i, vocabulary, refs, item) ==
    IF item.id \notin DOMAIN vocabulary THEN LoopRaised(vocabulary, refs)   \* KeyError
    ELSE IF item.code = NoCode THEN LoopRaised(vocabulary, refs)     \* AttributeError
    ELSE FillRate(valutes, i, [vocabulary EXCEPT ![item.id].code = item.code], refs,
                  item.id, float(CommaToDot(item.rate)))

FillLoop(valutes, i, vocabulary, refs) ==
    IF i > Len(valutes) THEN [failed |-> FALSE, vocabulary |-> vocabulary, refs |-> refs]
    ELSE FillItem(valutes, i, vocabulary, refs, valutes[i])

\* the dicts the list holds
Deref(vocabulary, refs) == [rk \in 1..Len(refs) |-> vocabulary[refs[rk]]]

\* the record fill() appends after the loop
Synthetic == RUR_RECORD

\* self._data_read_only = copy.deepcopy(self._data_write_only)
Publish(m, w) ==
    Return([m EXCEPT !.w = w, !.r = w, !.fs = "ok", !.pub = w], <<>>)

\* a variant that publishes the list without the synthetic record
AfterLoopUnappended(m, loop) ==
    IF loop.failed
    THEN Raise([m EXCEPT !.w = Deref(loop.vocabulary, loop.refs)],
               "APIException", "RatesParse")
    ELSE Publish(m, Deref(loop.vocabulary, loop.refs))

\* the end of the try block of fill(), or its except branch
AfterLoop(m, loop) ==
    IF loop.failed
    THEN Raise([m EXCEPT !.w = Deref(loop.vocabulary, loop.refs)],
               "APIException", "RatesParse")
    ELSE Publish(m, Append(Deref(loop.vocabulary, loop.refs), Synthetic))

\* the try block of fill()
FetchRates(m, vocabulary, rates) ==
    CASE rates.status = "RequestException" -> Raise(m, "APIException", "RatesFetch")
      [] rates.status = "Malformed"        -> Raise(m, "APIException", "RatesParse")
      [] OTHER -> AfterLoop(m, FillLoop(rates.valutes, 1, vocabulary, <<>>))

AfterVocabulary(v, rates) ==
    IF v.exc # "" THEN v
    ELSE FetchRates([v.m EXCEPT !.rates_fetches = @ + 1, !.rates = rates.status,
                                !.valutes = rates.valutes],
                    v.val, rates)

\* a variant that leaves the cached date as reset() made it
BeginFillUndated(m, now) ==
    [reset(m) EXCEPT !.rd = now, !.fs = "failed", !.fills = @ + 1]

\* self.reset(); self._cached_date = RatesStorage.current_date()
BeginFill(m, now) ==
    [reset(m) EXCEPT !.cd = now, !.rd = now, !.fs = "failed", !.fills = @ + 1]

\* RatesStorage.fill
fill(m, now, feed) ==
    AfterVocabulary(get_vocabulary(BeginFill(m, now), feed), feed.rates)

\* a variant that compares the lengths only
lists_match_lengths(l1, l2) == Len(l1) = Len(l2)

\* lists_match of RatesStorage.data
lists_match(l1, l2) ==
    IF Len(l1) # Len(l2) THEN FALSE
    ELSE \A mk \in 1..Len(l1) : l1[mk] = l2[mk]

\* a variant that takes every read for stale
ExpiredAlways(m, now) == TRUE

\* a variant that takes only a storage never filled for stale
ExpiredOnce(m, now) == m.cd = NoDate

\* the cache is stale: the test of RatesStorage.data
Expired(m, now) == now # m.cd

\* if not lists_match(...): self._data_read_only = copy.deepcopy(...)
Refreshed(m) ==
    IF ~lists_match(m.w, m.r) THEN [m EXCEPT !.r = m.w, !.copies = @ + 1] ELSE m

ReadOnly(m) == Return(m, m.r)

AfterFill(f) == IF f.exc # "" THEN f ELSE ReadOnly(Refreshed(f.m))

\* RatesStorage.data
data(m, now, feed) ==
    AfterFill(IF Expired(m, now) THEN fill(m, now, feed) ELSE Return(m, <<>>))

FirstOrNone(filtered) == IF Len(filtered) = 0 THEN <<>> ELSE <<filtered[1]>>

FindIn(d, code) ==
    IF d.exc # "" THEN d
    ELSE Return(d.m, FirstOrNone(SelectSeq(d.val, LAMBDA currency : currency.code = code)))

\* RatesStorage.find_currency_by_code
find_currency_by_code(m, now, feed, code) == FindIn(data(m, now, feed), code)

\* a variant that compares the two names only
equality_comparator_names(currency, request) ==
    \/ lower(currency.rus_name) = lower(request)
    \/ lower(currency.eng_name) = lower(request)

\* equality_comparator of get_currency_data
equality_comparator(currency, request) ==
    \/ lower(currency.code) = lower(request)
    \/ lower(currency.rus_name) = lower(request)
    \/ lower(currency.eng_name) = lower(request)

\* list.sort(key=distance) is stable: x goes behind every element whose key
\* is not larger
RECURSIVE InsertByDistance(_, _)
InsertByDistance(sorted, x) ==
    IF sorted = <<>> THEN <<x>>
    ELSE IF sorted[Len(sorted)].distance <= x.distance THEN Append(sorted, x)
    ELSE Append(InsertByDistance(SubSeq(sorted, 1, Len(sorted) - 1), x),
                sorted[Len(sorted)])

RECURSIVE SortPrefix(_, _)
SortPrefix(l, n) ==
    IF n = 0 THEN <<>> ELSE InsertByDistance(SortPrefix(l, n - 1), l[n])

SortByDistance(l) == SortPrefix(l, Len(l))

\* the largest distance get_currency_data still accepts
Threshold == 3

\* a variant with a strict comparison
BelowThreshold(d) == d < Threshold

\* lev_distances[0]["distance"] <= 3
WithinThreshold(d) == d <= Threshold

\* Levenshtein.distance(a, b): the distances between the names and the
\* requests of the model are computed once
distance(a, b) ==
    IF <<a, b>> \in DOMAIN KnownDistances THEN KnownDistances[<<a, b>>]
    ELSE Levenshtein(a, b)

\* the entry of lev_distances for one record
LevEntry(currency, request) ==
    [code |-> currency.code,
     distance |-> Min2(distance(lower(currency.rus_name), lower(request)),
                       distance(lower(currency.eng_name), lower(request)))]

\* the loop of get_currency_data that fills lev_distances
RECURSIVE LevDistances(_, _, _)
LevDistances(snapshot, request, n) ==
    IF n = 0 THEN <<>>
    ELSE Append(LevDistances(snapshot, request, n - 1), LevEntry(snapshot[n], request))

\* the last line of get_currency_data
Closest(m, now, feed, lev_distances) ==
    IF Len(lev_distances) = 0 THEN Raise(m, "IndexError", "")
    ELSE IF WithinThreshold(lev_distances[1].distance)
    THEN find_currency_by_code(m, now, feed, lev_distances[1].code)
    ELSE Return(m, <<>>)

\* step 2 of get_currency_data, on the second read of self.data
Fuzzy(d, now, feed, request) ==
    IF d.exc # "" THEN d
    ELSE Closest(d.m, now, feed,
                 SortByDistance(LevDistances(d.val, request, Len(d.val))))

ExactOrFuzzy(m, now, feed, request, equality_filtered) ==
    IF Len(equality_filtered) > 0 THEN Return(m, <<equality_filtered[1]>>)
    ELSE Fuzzy(data(m, now, feed), now, feed, request)

\* step 1 of get_currency_data, on the first read of self.data
Exact(d, now, feed, request) ==
    IF d.exc # "" THEN d
    ELSE ExactOrFuzzy(d.m, now, feed, request,
             SelectSeq(d.val, LAMBDA currency : equality_comparator(currency, request)))

\* RatesStorage.get_currency_data
get_currency_data(m, now, feed, request) ==
    Exact(data(m, now, feed), now, feed, request)

----------------------------------------------------------------------------
(* API *)

\* what a handler returns: the kind of text, and what the text shows
Reply(msg, rows, amount, quantity) ==
    [msg |-> msg, rows |-> rows, amount |-> amount, quantity |-> quantity]

Message(msg) == Reply(msg, <<>>, 0, 0)

\* code, rus_name and eng_name as the texts show them
Shown(item) ==
    [code |-> item.code, rus_name |-> item.rus_name, eng_name |-> item.eng_name]

\* round(n / d) for n >= 0 and d > 0, half to even
RoundDiv(n, d) ==
    IF 2 * (n % d) > d THEN (n \div d) + 1
    ELSE IF 2 * (n % d) = d THEN (n \div d) + ((n \div d) % 2)
    ELSE n \div d

\* a variant that divides the rate of the quote by the rate of the base
ConvertInverted(m, base_data, quote_data, amount) ==
    IF base_data.code = quote_data.code THEN Raise(m, "APIException", "SameCurrency")
    ELSE IF base_data.rub_rate = 0 THEN Raise(m, "ZeroDivisionError", "")
    ELSE IF amount.nan
    THEN Return(m, <<Reply("PriceNaN", <<Shown(base_data), Shown(quote_data)>>, 0, 0)>>)
    ELSE Return(m, <<Reply("Price", <<Shown(base_data), Shown(quote_data)>>, amount.val,
                          RoundDiv(quote_data.rub_rate * amount.val,
                                   base_data.rub_rate))>>)

\* a variant without the comparison of the codes
ConvertUnchecked(m, base_data, quote_data, amount) ==
    IF quote_data.rub_rate = 0 THEN Raise(m, "ZeroDivisionError", "")
    ELSE IF amount.nan
    THEN Return(m, <<Reply("PriceNaN", <<Shown(base_data), Shown(quote_data)>>, 0, 0)>>)
    ELSE Return(m, <<Reply("Price", <<Shown(base_data), Shown(quote_data)>>, amount.val,
                          RoundDiv(base_data.rub_rate * amount.val,
                                   quote_data.rub_rate))>>)

\* the comparison of the codes, base_quantity and the text of the result; the
\* text of kind "PriceNaN" shows nan for the amount and for the quantity
Convert(m, base_data, quote_data, amount) ==
    IF base_data.code = quote_data.code THEN Raise(m, "APIException", "SameCurrency")
    ELSE IF quote_data.rub_rate = 0 THEN Raise(m, "ZeroDivisionError", "")
    ELSE IF amount.nan
    THEN Return(m, <<Reply("PriceNaN", <<Shown(base_data), Shown(quote_data)>>, 0, 0)>>)
    ELSE Return(m, <<Reply("Price", <<Shown(base_data), Shown(quote_data)>>, amount.val,
                          RoundDiv(base_data.rub_rate * amount.val,
                                   quote_data.rub_rate))>>)

\* quote_data = API.storage.get_currency_data(quote) and its check
WithQuote(q, base_data, amount) ==
    IF q.exc # "" THEN q
    ELSE IF q.val = <<>> THEN Raise(q.m, "APIException", "QuoteNotFound")
    ELSE Convert(q.m, base_data, q.val[1], amount)

\* base_data = API.storage.get_currency_data(base) and its check
WithBase(b, now, feed, quote, amount) ==
    IF b.exc # "" THEN b
    ELSE IF b.val = <<>> THEN Raise(b.m, "APIException", "BaseNotFound")
    ELSE WithQuote(get_currency_data(b.m, now, feed, quote), b.val[1], amount)

\* the checks of the amount
WithAmount(m, now, feed, base, quote, amount) ==
    IF ~amount.ok THEN Raise(m, "APIException", "AmountNotNumber")
    ELSE IF NotAboveZero(amount) THEN Raise(m, "APIException", "AmountNotPositive")
    ELSE WithBase(get_currency_data(m, now, feed, base), now, feed, quote, amount)

\* the try block of API.get_price, before the handler of APIException
get_price_body(m, now, feed, base, quote, text) ==
    WithAmount(m, now, feed, base, quote, float(text))

\* except APIException as e: return f"{e}"
CatchAPIException(o) ==
    IF o.exc = "APIException" THEN Return(o.m, <<Message(o.msg)>>) ELSE o

\* API.get_price
get_price(m, now, feed, base, quote, text) ==
    CatchAPIException(get_price_body(m, now, feed, base, quote, text))

\* the rows of the listing
Listing(d) ==
    IF d.exc # "" THEN d
    ELSE Return(d.m, <<Reply("Vocabulary",
                             [vk \in 1..Len(d.val) |-> Shown(d.val[vk])], 0, 0)>>)

\* API.get_vocabulary
get_vocabulary_listing(m, now, feed) ==
    CatchAPIException(Listing(data(m, now, feed)))

----------------------------------------------------------------------------
(* The state machine *)

\* what a call leaves in ret
Outcome(op, args, o) ==
    [op |-> op, args |-> args, exc |-> o.exc, msg |-> o.msg, val |-> o.val,
     fills |-> o.m.fills, voc_fetches |-> o.m.voc_fetches,
     rates_fetches |-> o.m.rates_fetches, copies |-> o.m.copies,
     voc |-> o.m.voc, rates |-> o.m.rates,
     valutes |-> o.m.valutes]

\* no call has returned since the date changed
Idle == Outcome("none", <<>>, Return(NewStorage, <<>>))

\* the worker threads of telebot.TeleBot (threaded, two workers by default)
Threads == {1, 2}

\* a thread between two requests: pc is its place in the code, valutes and k
\* are the locals of fill(), raised tells that its last request ended with
\* an exception, result is the list its last read returned, torn tells that
\* this list was not the published one while another thread was refreshing
Resting ==
    [pc |-> "idle", valutes |-> <<>>, k |-> 0, raised |-> FALSE, result |-> <<>>,
     torn |-> FALSE, calls |-> 0]

Init ==
    /\ today = 1
    /\ hasStorage = FALSE
    /\ data_write_only = <<>>
    /\ data_read_only = <<>>
    /\ cached_date = NoDate
    /\ requested_date = NoDate
    /\ fill_status = "never"
    /\ published = <<>>
    /\ threads = [t \in Threads |-> Resting]
    /\ ret = Idle

\* the storage a handler works on: API.storage, made on the first request
Storage ==
    IF hasStorage
    THEN Machine(data_write_only, data_read_only, cached_date, requested_date,
                 fill_status, published)
    ELSE NewStorage

\* the upstream answers only a call that refreshes
Upstream == IF Expired(Storage, today) THEN Feeds ELSE {NoFeed}

\* the call ends: the storage is as the call left it, ret tells the caller's view
Finish(op, args, o) ==
    /\ hasStorage' = TRUE
    /\ data_write_only' = o.m.w
    /\ data_read_only' = o.m.r
    /\ cached_date' = o.m.cd
    /\ requested_date' = o.m.rd
    /\ fill_status' = o.m.fs
    /\ published' = o.m.pub
    /\ ret' = Outcome(op, args, o)
    /\ UNCHANGED <<today, threads>>

\* a conversion request: API.get_price(base, quote, amount)
GetPrice ==
    \E req \in Requests, feed \in Upstream :
        Finish("get_price", req,
               get_price(Storage, today, feed, req[1], req[2], req[3]))

\* the /values command: API.get_vocabulary()
GetVocabulary ==
    \E feed \in Upstream :
        Finish("get_vocabulary", <<>>, get_vocabulary_listing(Storage, today, feed))

\* a read of API.storage.data
Data ==
    /\ hasStorage
    /\ \E feed \in Upstream : Finish("data", <<>>, data(Storage, today, feed))

\* API.storage.get_currency_data(request)
GetCurrencyData ==
    /\ hasStorage
    /\ \E request \in Queries, feed \in Upstream :
           Finish("get_currency_data", <<request>>,
                  get_currency_data(Storage, today, feed, request))

\* API.storage.find_currency_by_code(code)
FindCurrencyByCode ==
    /\ hasStorage
    /\ \E code \in CodeQueries, feed \in Upstream :
           Finish("find_currency_by_code", <<code>>,
                  find_currency_by_code(Storage, today, feed, code))

\* midnight passes between two requests
Tick ==
    /\ today < MaxDate
    /\ today' = today + 1
    /\ ret' = Idle
    /\ UNCHANGED <<hasStorage, data_write_only, data_read_only, cached_date,
                   requested_date, fill_status, published, threads>>

Next ==
    \/ GetPrice
    \/ GetVocabulary
    \/ Data
    \/ GetCurrencyData
    \/ FindCurrencyByCode
    \/ Tick

Spec == Init /\ [][Next]_vars

----------------------------------------------------------------------------
(* A caller that changes what a read has handed to it.  data returns the
   list _data_read_only itself and find_currency_by_code a dict of it, so
   the change is a change of _data_read_only.  The requests and the changes
   are those of one day: the date does not change. *)

\* l in reverse order
Reverse(l) == [rv \in 1..Len(l) |-> l[Len(l) + 1 - rv]]

\* item["rub_rate"] = 0.0 on the first dict of the list; the deep copy keeps a
\* dict that is in the list twice one dict
WithFieldChanged(l) ==
    [fc \in 1..Len(l) |-> IF l[fc] = l[1] THEN [l[fc] EXCEPT !.rub_rate = 0] ELSE l[fc]]

\* what the caller can make of a list: a field changed, a record added, a
\* record removed, the order changed
Mutations(l) ==
    {Append(l, RUR_RECORD)}
    \cup (IF l = <<>> THEN {} ELSE {WithFieldChanged(l), Tail(l), Reverse(l)})

\* the caller changes the list the last read returned; ret keeps the list as
\* the read returned it
Mutate ==
    /\ hasStorage
    /\ ret.op \in {"data", "find_currency_by_code"}
    /\ ret.exc = ""
    /\ \E l \in Mutations(data_read_only) :
           /\ l # data_read_only
           /\ data_read_only' = l
    /\ ret' = Outcome("mutate", <<>>, Return(Storage, data_read_only))
    /\ UNCHANGED <<today, hasStorage, data_write_only, cached_date, requested_date,
                   fill_status, published, threads>>

NextMutation ==
    \/ GetPrice
    \/ GetVocabulary
    \/ Data
    \/ GetCurrencyData
    \/ FindCurrencyByCode
    \/ Mutate

SpecMutation == Init /\ [][NextMutation]_vars

----------------------------------------------------------------------------
(* Two worker threads of the bot read API.storage.data at the same time.  No
   lock guards the storage, so a thread can be preempted between any two
   statements; the steps below are the statements of data and fill() that
   read or write the fields of the storage.  The date does not change. *)

\* the rates documents of the threads: no ID twice, so that every dict of the
\* vocabulary is appended once and the list can hold the dicts by value
ThreadDocuments ==
    {x \in RatesResponses :
        \A r1, r2 \in 1..Len(x.valutes) :
            x.valutes[r1].id = x.valutes[r2].id => r1 = r2}

\* the dict of the vocabulary after the loop body has set its code and rate
Record(valute) ==
    [rus_name |-> VocDoc[valute.id].rus_name,
     eng_name |-> VocDoc[valute.id].eng_name,
     code |-> valute.code,
     rub_rate |-> float(CommaToDot(valute.rate)).val]

\* the thread has called fill() and fill() has not returned
InFill(th) == th.pc \in {"fill", "voc", "rates", "loop", "publish"}

\* the thread goes on
Goes(t, th) ==
    /\ threads' = [threads EXCEPT ![t] = th]
    /\ UNCHANGED <<today, requested_date, fill_status, ret>>

\* its request ends with an APIException
Raises(t) == [threads[t] EXCEPT !.pc = "idle", !.raised = TRUE]

\* a handler begins: API.storage is made if it is not there
Call(t) ==
    /\ threads[t].pc = "idle"
    /\ threads[t].calls < MaxCalls
    /\ hasStorage' = TRUE
    /\ Goes(t, [threads[t] EXCEPT !.pc = "test", !.calls = @ + 1, !.raised = FALSE,
                                  !.result = <<>>, !.torn = FALSE])
    /\ UNCHANGED <<data_write_only, data_read_only, cached_date, published>>

\* if RatesStorage.current_date() != self._cached_date
TestDate(t) ==
    /\ threads[t].pc = "test"
    /\ Goes(t, [threads[t] EXCEPT
                   !.pc = IF today # cached_date THEN "fill" ELSE "match"])
    /\ UNCHANGED <<hasStorage, data_write_only, data_read_only, cached_date,
                   published>>

\* self.reset(); self._cached_date = RatesStorage.current_date()
StartFill(t) ==
    /\ threads[t].pc = "fill"
    /\ data_write_only' = <<>>
    /\ data_read_only' = <<>>
    /\ cached_date' = today
    /\ Goes(t, [threads[t] EXCEPT !.pc = "voc"])
    /\ UNCHANGED <<hasStorage, published>>

\* vocabulary = RatesStorage.get_vocabulary()
FetchVocabulary(t) ==
    /\ threads[t].pc = "voc"
    /\ \E voc \in VocResponses :
           Goes(t, IF voc.status = "ok" THEN [threads[t] EXCEPT !.pc = "rates"]
                   ELSE Raises(t))
    /\ UNCHANGED <<hasStorage, data_write_only, data_read_only, cached_date,
                   published>>

\* response = requests.get(requested_url).text; tree = ETree.fromstring(response)
FetchDocument(t) ==
    /\ threads[t].pc = "rates"
    /\ \E rates \in ThreadDocuments :
           Goes(t, IF rates.status = "ok"
                   THEN [threads[t] EXCEPT !.pc = "loop", !.valutes = rates.valutes,
                                           !.k = 1]
                   ELSE Raises(t))
    /\ UNCHANGED <<hasStorage, data_write_only, data_read_only, cached_date,
                   published>>

\* one turn of the loop: self._data_write_only.append(currency_data), or the
\* KeyError of an unknown ID
AppendRecord(t) ==
    /\ threads[t].pc = "loop"
    /\ threads[t].k <= Len(threads[t].valutes)
    /\ IF threads[t].valutes[threads[t].k].id \in DOMAIN VocDoc
       THEN /\ data_write_only' =
                   Append(data_write_only, Record(threads[t].valutes[threads[t].k]))
            /\ Goes(t, [threads[t] EXCEPT !.k = @ + 1])
       ELSE /\ Goes(t, Raises(t))
            /\ UNCHANGED data_write_only
    /\ UNCHANGED <<hasStorage, data_read_only, cached_date, published>>

\* the append of the RUR record after the loop
AppendSynthetic(t) ==
    /\ threads[t].pc = "loop"
    /\ threads[t].k > Len(threads[t].valutes)
    /\ data_write_only' = Append(data_write_only, RUR_RECORD)
    /\ Goes(t, [threads[t] EXCEPT !.pc = "publish"])
    /\ UNCHANGED <<hasStorage, data_read_only, cached_date, published>>

\* self._data_read_only = copy.deepcopy(self._data_write_only); fill() returns
PublishCopy(t) ==
    /\ threads[t].pc = "publish"
    /\ data_read_only' = data_write_only
    /\ published' = data_write_only
    /\ Goes(t, [threads[t] EXCEPT !.pc = "match"])
    /\ UNCHANGED <<hasStorage, data_write_only, cached_date>>

\* the list data returns now
Served == IF lists_match(data_write_only, data_read_only) THEN data_read_only
          ELSE data_write_only

\* if not lists_match(...): deepcopy; return self._data_read_only
MatchAndReturn(t) ==
    /\ threads[t].pc = "match"
    /\ data_read_only' = Served
    /\ Goes(t, [threads[t] EXCEPT
                   !.pc = "idle", !.result = Served,
                   !.torn = /\ Served # published
                            /\ \E u \in Threads \ {t} : InFill(threads[u])])
    /\ UNCHANGED <<hasStorage, data_write_only, cached_date, published>>

NextConcurrent ==
    \E t \in Threads :
        \/ Call(t)
        \/ TestDate(t)
        \/ StartFill(t)
        \/ FetchVocabulary(t)
        \/ FetchDocument(t)
        \/ AppendRecord(t)
        \/ AppendSynthetic(t)
        \/ PublishCopy(t)
        \/ MatchAndReturn(t)

SpecConcurrent == Init /\ [][NextConcurrent]_vars

----------------------------------------------------------------------------
(* The claims *)

\* the calls of RatesStorage that read the snapshot
StorageReads == {"data", "get_currency_data", "find_currency_by_code"}

\* C1: all-or-nothing refresh.  A read that returns a snapshot returns the one
\* the last successful refresh published (the empty one before the first): a
\* failed refresh leaves it in place and no read sees a partly built list.
C1_AllOrNothingRefresh ==
    (ret.op = "data" /\ ret.exc = "") => ret.val = published

\* C2: the cached date is updated last.  After a refresh that failed the
\* cached date is not today's, so the next read of the day refreshes again.
C2_CachedDateUpdatedLast ==
    fill_status = "failed" => cached_date # today

\* C3: idempotent reads.  Of two consecutive reads with no date change in
\* between, the second returns a snapshot equal to the first's and fetches
\* nothing from the upstream.
C3_IdempotentReads ==
    [][ (ret.op = "data" /\ ret.exc = "" /\ ret'.op = "data" /\ today' = today)
        => /\ ret'.exc = ""
           /\ ret'.val = ret.val
           /\ ret'.fills = 0
           /\ ret'.voc_fetches = 0
           /\ ret'.rates_fetches = 0 ]_vars

\* a read that followed a read on the same day, fetched nothing and returned
\* a snapshot with a record of the feed
C3_SecondReadServed ==
    /\ ret.op = "data"
    /\ ret.exc = ""
    /\ ret.fills = 0
    /\ ret.voc_fetches + ret.rates_fetches = 0
    /\ Len(ret.val) > 1

\* C4: stale means refresh.  A read that finds the cached date different from
\* today's runs one full refresh before it is served, the rates are requested
\* for today's date, and a read that is served after it returns what that
\* refresh published; so no read returns records requested for another date.
C4_StaleReadRefreshes ==
    [][ /\ (ret'.op \in StorageReads /\ (~hasStorage \/ cached_date # today))
            => /\ ret'.fills = 1
               /\ ret'.voc_fetches = 1
               /\ requested_date' = today
               /\ cached_date' = today
               /\ ret'.exc = "" => (fill_status' = "ok" /\ data_read_only' = published')
        /\ (ret'.op = "data" /\ ret'.exc = "" /\ ret'.val # <<>>)
            => requested_date' = today' ]_vars

\* a read on the second day that refreshed and returned the records of that day
C4_RefreshedOnNewDate ==
    /\ today = 2
    /\ ret.op = "data"
    /\ ret.exc = ""
    /\ ret.fills = 1
    /\ requested_date = 2
    /\ Len(ret.val) > 1

\* C5: get_price never lets an exception reach its caller: whatever the
\* inputs and the state of the cache, it returns a text.
C5_GetPriceReturnsText ==
    ret.op = "get_price" => (ret.exc = "" /\ Len(ret.val) = 1)

\* C6: after a refresh that completes without error, whatever the feed held
\* (nothing included), the last record of the snapshot is the synthetic one
\* (code RUR, rate 1.0, the fixed names) and the snapshot holds one record
\* per rate entry and that one.
C6_SyntheticRecordLast ==
    (ret.fills = 1 /\ fill_status = "ok")
    => /\ Len(data_write_only) = Len(ret.valutes) + 1
       /\ data_write_only[Len(data_write_only)] =
              [code |-> <<"R", "U", "R">>, rub_rate |-> 100,
               rus_name |-> RUR_NAMES.rus_name, eng_name |-> RUR_NAMES.eng_name]
       /\ data_read_only = data_write_only

\* a refresh of a feed of two entries has completed
C6_RefreshedTwoEntries ==
    /\ ret.fills = 1
    /\ fill_status = "ok"
    /\ Len(ret.valutes) = 2
    /\ Len(data_write_only) = 3

\* the failure the feeds of a refresh call for: a feed that cannot be fetched
\* is a fetch error, a document that cannot be parsed or an entry whose id
\* the vocabulary lacks is a parse error
RefreshFailure(r) ==
    CASE r.voc = "RequestException"   -> "VocFetch"
      [] r.voc = "Malformed"          -> "VocParse"
      [] r.rates = "RequestException" -> "RatesFetch"
      [] r.rates = "Malformed"        -> "RatesParse"
      [] r.rates = "ok" /\ (\E k7 \in 1..Len(r.valutes) :
                               r.valutes[k7].id \notin DOMAIN VocDoc) -> "RatesParse"
      [] OTHER -> ""

\* C7: a refresh failure is surfaced in the request that triggered it: a feed
\* that cannot be fetched gives the fetch error, a document that cannot be
\* parsed or a rate entry whose id the vocabulary lacks gives the parse error,
\* and the request returns that message alone, no result and no listing.
C7_RefreshFailureSurfaced ==
    (ret.fills = 1 /\ RefreshFailure(ret) # "")
    => IF ret.op \in {"get_price", "get_vocabulary"}
       THEN /\ ret.exc = ""
            /\ ret.val = <<[msg |-> RefreshFailure(ret), rows |-> <<>>,
                            amount |-> 0, quantity |-> 0]>>
       ELSE /\ ret.exc = "APIException"
            /\ ret.msg = RefreshFailure(ret)
            /\ ret.val = <<>>

\* a conversion request met a vocabulary that could not be fetched and
\* returned the fetch error
C7_FetchErrorReturned ==
    /\ ret.op = "get_price"
    /\ ret.fills = 1
    /\ ret.voc = "RequestException"
    /\ ret.exc = ""
    /\ ret.val = <<[msg |-> "VocFetch", rows |-> <<>>, amount |-> 0, quantity |-> 0]>>

\* the request equals the record on its code or on one of its names, the case
\* of the letters apart
MatchesExactly(currency, request) ==
    lower(request) \in {lower(currency.code), lower(currency.rus_name),
                        lower(currency.eng_name)}

\* the places of the snapshot the request matches exactly
ExactMatches(snapshot, request) ==
    {k8 \in 1..Len(snapshot) : MatchesExactly(snapshot[k8], request)}

\* the smallest number of a non-empty set of naturals
Least(S) == CHOOSE x \in S : \A y \in S : x <= y

\* a call of get_currency_data has returned; the snapshot it read is the
\* read-only list it left
Resolved == ret.op = "get_currency_data" /\ ret.exc = ""

\* C8: if a record of the snapshot equals the request on its code or on a
\* name, get_currency_data returns the first such record in snapshot order,
\* whatever the distances to the names of the other records.
C8_ExactMatchFirst ==
    (Resolved /\ ExactMatches(data_read_only, ret.args[1]) # {})
    => ret.val = <<data_read_only[Least(ExactMatches(data_read_only, ret.args[1]))]>>

\* "usd" is resolved on a snapshot whose first two records both carry USD and
\* whose second has the closer name: the first is returned
C8_FirstOfTwoMatches ==
    /\ Resolved
    /\ ret.args = <<usd>>
    /\ Len(data_read_only) = 3
    /\ data_read_only[1].code = USD
    /\ data_read_only[2].code = USD
    /\ data_read_only[1] # data_read_only[2]
    /\ ret.val = <<data_read_only[1]>>

\* the distance of a request to a record: the smaller of the distances to
\* its two names
NameDistance(currency, request) ==
    Min2(distance(lower(currency.rus_name), lower(request)),
         distance(lower(currency.eng_name), lower(request)))

\* the smallest distance of a request over a snapshot that holds a record
MinDistance(snapshot, request) ==
    Least({NameDistance(snapshot[k9], request) : k9 \in 1..Len(snapshot)})

\* the first place of the snapshot at the smallest distance
Nearest(snapshot, request) ==
    Least({k9 \in 1..Len(snapshot) :
              NameDistance(snapshot[k9], request) = MinDistance(snapshot, request)})

\* get_currency_data has gone past its exact step on a snapshot with records
FuzzyStep ==
    /\ ret.op = "get_currency_data"
    /\ data_read_only # <<>>
    /\ ExactMatches(data_read_only, ret.args[1]) = {}

\* C9: when no record matches exactly and the smallest distance is at most 3,
\* get_currency_data returns the record at the smallest distance, the first
\* in snapshot order among those tied on it, on every snapshot a refresh can
\* produce.
C9_NearestRecordReturned ==
    (FuzzyStep /\ ret.exc = "" /\ MinDistance(data_read_only, ret.args[1]) <= 3)
    => ret.val = <<data_read_only[Nearest(data_read_only, ret.args[1])]>>

\* C10: when no record matches exactly, get_currency_data returns not-found
\* exactly if the smallest distance over the records is greater than 3; a
\* smallest distance of exactly 3 resolves to a record.
C10_ThresholdIsThree ==
    FuzzyStep
    => /\ ret.exc = ""
       /\ ret.val = <<>> <=> MinDistance(data_read_only, ret.args[1]) > 3
       /\ ret.val # <<>> => ret.val[1] \in {data_read_only[k10] : k10 \in 1..Len(data_read_only)}

\* a request at distance exactly 3 of the nearest name resolved to a record
C10_ResolvedAtThree ==
    /\ FuzzyStep
    /\ MinDistance(data_read_only, ret.args[1]) = 3
    /\ ret.val # <<>>

\* the places of the snapshot whose code is the argument, the case of the
\* letters apart
CodeMatches(snapshot, code) ==
    {k11 \in 1..Len(snapshot) : lower(snapshot[k11].code) = lower(code)}

\* C11: find_currency_by_code matches the code case-insensitively: it returns
\* the first record of the snapshot whose code equals the argument ignoring
\* case, and not-found only when there is no such record.
C11_FindByCodeIgnoresCase ==
    (ret.op = "find_currency_by_code" /\ ret.exc = "")
    => IF CodeMatches(data_read_only, ret.args[1]) = {}
       THEN ret.val = <<>>
       ELSE ret.val = <<data_read_only[Least(CodeMatches(data_read_only, ret.args[1]))]>>

\* a call of get_price has returned a text that is not the message of a
\* failed refresh
Answered ==
    /\ ret.op = "get_price"
    /\ ret.exc = ""
    /\ ret.val[1].msg \notin {"VocFetch", "VocParse", "RatesFetch", "RatesParse"}

\* the amount of the request is a number above zero
StrictlyPositive(f) == f.ok /\ ~f.nan /\ f.val > 0

\* what the cache of the day resolves a query to
ResolvedFor(query) == get_currency_data(Storage, today, NoFeed, query).val

\* the texts that state a result
Results == {"Price", "PriceNaN"}

\* the first check of get_price that fails on a request, in the fixed order,
\* or "Price" when all five pass
FirstFailingCheck(req) ==
    IF ~float(req[3]).ok THEN "AmountNotNumber"
    ELSE IF ~StrictlyPositive(float(req[3])) THEN "AmountNotPositive"
    ELSE IF ResolvedFor(req[1]) = <<>> THEN "BaseNotFound"
    ELSE IF ResolvedFor(req[2]) = <<>> THEN "QuoteNotFound"
    ELSE IF ResolvedFor(req[1])[1].code = ResolvedFor(req[2])[1].code THEN "SameCurrency"
    ELSE "Price"

\* C12: get_price reports the first failing check in the order: amount not a
\* number, amount not above zero, target not resolved, source not resolved,
\* same currency; it returns a result only when all five pass.
C12_FirstFailingCheckReported ==
    Answered
    => IF FirstFailingCheck(ret.args) = "Price"
       THEN ret.val[1].msg \in Results
       ELSE ret.val[1].msg = FirstFailingCheck(ret.args)

\* the amount of the request passes its checks and both queries resolve
BothResolved ==
    /\ Answered
    /\ StrictlyPositive(float(ret.args[3]))
    /\ ResolvedFor(ret.args[1]) # <<>>
    /\ ResolvedFor(ret.args[2]) # <<>>

\* C13: get_price fails with SameCurrency exactly when the two queries resolve
\* to records of the same code, also when the queries are different strings;
\* then the text is the message alone: no amount is converted.
C13_SameCurrencyBySameCode ==
    BothResolved
    => IF ResolvedFor(ret.args[1])[1].code = ResolvedFor(ret.args[2])[1].code
       THEN ret.val = <<[msg |-> "SameCurrency", rows |-> <<>>,
                         amount |-> 0, quantity |-> 0]>>
       ELSE ret.val[1].msg \in Results

\* a code and a misspelt name of the same currency were refused
C13_CodeAndMisspeltName ==
    /\ BothResolved
    /\ ret.args = <<usd, Dolar, <<"5">>>>
    /\ ret.val[1].msg = "SameCurrency"

\* C14: external mutation cannot corrupt the cache.  After a caller has
\* changed the list or a record a read returned (a field changed, a record
\* added or removed, the order changed), the next read of the day returns the
\* list as it was before the change, the one the last refresh produced, and
\* fetches nothing.
C14_MutationUndone ==
    [][ (ret.op = "mutate" /\ ret'.op = "data" /\ today' = today)
        => /\ ret'.exc = ""
           /\ ret'.val = ret.val
           /\ ret'.val = data_write_only
           /\ fill_status = "ok" => ret'.val = published
           /\ ret'.fills = 0
           /\ ret'.voc_fetches + ret'.rates_fetches = 0 ]_vars

\* a read found the list of a successful refresh changed and restored it
\* without a refresh
C14_RestoredAfterMutation ==
    /\ ret.op = "data"
    /\ ret.exc = ""
    /\ ret.fills = 0
    /\ ret.copies = 1
    /\ fill_status = "ok"
    /\ Len(ret.val) > 1
    /\ ret.val = published

\* the cache is stale for a request that begins now
Stale == ~hasStorage \/ cached_date # today

\* get_price has refused the amount of the request
AmountRefused(r) ==
    /\ r.op = "get_price"
    /\ r.exc = ""
    /\ r.val[1].msg \in {"AmountNotNumber", "AmountNotPositive"}

\* C16: one request of a user (one get_price or one get_vocabulary) that finds
\* the cache stale attempts exactly one refresh, of at most one vocabulary
\* fetch and at most one rates fetch; a failed refresh is not tried again in
\* the request, and no request refreshes more than once however often it
\* reads the snapshot.
C16_OneRefreshPerRequest ==
    [][ ret'.op \in {"get_price", "get_vocabulary"}
        => /\ ret'.fills <= 1
           /\ ret'.voc_fetches <= ret'.fills
           /\ ret'.rates_fetches <= ret'.voc_fetches
           /\ (Stale /\ ~AmountRefused(ret')) => (ret'.fills = 1 /\ ret'.voc_fetches = 1)
           /\ ~Stale => ret'.fills = 0 ]_vars

\* a conversion on a stale cache read the snapshot four times, refreshed once
\* and returned a result
C16_ConvertedOnOneRefresh ==
    /\ ret.op = "get_price"
    /\ ret.exc = ""
    /\ ret.val[1].msg = "Price"
    /\ ret.fills = 1
    /\ ret.voc_fetches = 1
    /\ ret.rates_fetches = 1

\* C17: in every snapshot a refresh publishes no two records have the same
\* code, the case of the letters apart, whatever the rates feed returns.
C17_CodesUnique ==
    fill_status = "ok"
    => \A i17, j17 \in 1..Len(published) :
           lower(published[i17].code) = lower(published[j17].code) => i17 = j17

\* |x|
Abs(x) == IF x < 0 THEN 0 - x ELSE x

\* the text states the amount with the code and names of the target record
\* and, with those of the source record, a quantity that is
\* target.rub_rate / source.rub_rate * amount rounded to two decimal places:
\* amounts and rates are in hundredths, and no other number of hundredths is
\* nearer to the quotient
PriceOf(reply, target, source, amount) ==
    /\ reply.rows =
           <<[code |-> target.code, rus_name |-> target.rus_name,
              eng_name |-> target.eng_name],
             [code |-> source.code, rus_name |-> source.rus_name,
              eng_name |-> source.eng_name]>>
    /\ reply.amount = amount
    /\ 2 * Abs(reply.quantity * source.rub_rate - target.rub_rate * amount)
           <= source.rub_rate

\* C18: a successful get_price reports targetRate / sourceRate * amount
\* rounded to 2 decimal places, the rates being those of the records the first
\* and the second query resolve to; the amount is shown with the code and
\* names of the target record, the converted amount with those of the source.
C18_ConvertedAmount ==
    (ret.op = "get_price" /\ ret.exc = "" /\ ret.val[1].msg = "Price")
    => PriceOf(ret.val[1], ResolvedFor(ret.args[1])[1], ResolvedFor(ret.args[2])[1],
               float(ret.args[3]).val)

\* 5 USD at 90 for EUR at 100.5 are 4.48
C18_FiveDollarsInEuro ==
    /\ ret.op = "get_price"
    /\ ret.args = <<usd, EURO, <<"5">>>>
    /\ ret.exc = ""
    /\ ret.val[1].msg = "Price"
    /\ ret.val[1].rows[1].code = USD
    /\ ret.val[1].rows[2].code = EUR
    /\ ret.val[1].amount = 500
    /\ ret.val[1].quantity = 448

\* the record a rate entry and the vocabulary call for
Merged(valute) ==
    [code |-> valute.code,
     rub_rate |-> float(CommaToDot(valute.rate)).val,
     rus_name |-> VocDoc[valute.id].rus_name,
     eng_name |-> VocDoc[valute.id].eng_name]

\* C19: merge correctness of a successful refresh: the snapshot holds, in feed
\* order, one record per rate entry with that entry's own code and rate and
\* the names the vocabulary gives for its id, then the synthetic record; also
\* when two entries refer to the same id.
C19_MergedInFeedOrder ==
    (ret.fills = 1 /\ fill_status = "ok")
    => /\ Len(published) = Len(ret.valutes) + 1
       /\ \A k19 \in 1..Len(ret.valutes) : published[k19] = Merged(ret.valutes[k19])
       /\ published[Len(published)].code = <<"R", "U", "R">>

\* C20: a get_price whose amount is no number or not above zero is rejected
\* before the storage is read: no vocabulary or rates fetch, and the cached
\* date and the cached records stay as they are, also when the cache is stale.
C20_RejectedBeforeStorageRead ==
    [][ (ret'.op = "get_price" /\ ~StrictlyPositive(float(ret'.args[3])))
        => /\ ret'.fills = 0
           /\ ret'.voc_fetches + ret'.rates_fetches = 0
           /\ cached_date' = cached_date
           /\ data_write_only' = data_write_only
           /\ data_read_only' = data_read_only ]_vars

\* C15: of two requests that run at the same time on the one storage at
\* most one is refreshing, and a reader either waits for the refresh or reads
\* the last published snapshot: no read returns the empty or partly filled
\* list of a refresh that another request is executing.
C15_RefreshesSerialized ==
    /\ Cardinality({t \in Threads : InFill(threads[t])}) <= 1
    /\ \A t \in Threads : ~threads[t].torn

====
